---------------------------- MODULE Spec2Model ----------------------------
(***************************************************************************)
(* Model of adaptive_api/pe.py: the key codec (to_key_string,             *)
(* id_to_string, string_to_id), the history decoder (_fix_history),       *)
(* ApiPe.history and the tabulator (history_to_csv).                      *)
(*                                                                         *)
(* Python values are modelled as follows.                                  *)
(*   list of int          a sequence of integers                           *)
(*   Optional value       <<>> for None, <<v>> for a present value v       *)
(*   a tag value          PyInt(n), PyBool(b) or PyText(s): a record that  *)
(*                        carries the value's runtime type                 *)
(*   str (key codec)      a sequence of one-character strings              *)
(*   identifier           KStr(chars), KInt(n), KList(scalars) or KNone: a *)
(*                        record that carries the value's runtime type;    *)
(*                        KValueError stands for a raised ValueError       *)
(***************************************************************************)
EXTENDS Integers, Sequences, FiniteSets, TLC

VARIABLES
    pc,             \* position of the caller: idle, returned, csv, csv_done, csv_raised
    response_json,  \* what _fetch('history', params) returned: <<>> absent, <<payload>>
    result,         \* what ApiPe.history returned: "None" or "history"
    fixCalls,       \* number of calls of _fix_history so far
    start,          \* history.start, in milliseconds
    elapsedTimes,   \* history.elapsedTimes
    tags,           \* history.tags: records [name, type, elapsedIndexes, values]
    i,              \* history_to_csv: the row index of the outer loop
    tag_pointers,   \* history_to_csv: per-tag cursor
    last_values,    \* history_to_csv: per-tag last seen value (<<>> is None)
    output,         \* history_to_csv: the records written so far
    csv_results,    \* what the calls of history_to_csv so far gave: the records
                    \* returned, or <<<<"IndexError">>>> for a call that raised
    kpc,            \* key codec: which call sequence has run
    key_s,          \* key codec: the string argument or result
    key_id,         \* key codec: the identifier argument or result
    key_out,        \* key codec: the result of the second call of a round trip
    key_eq          \* key codec: what id_equals(key_id, key_out) gave ("" before a call)

histVars == <<pc, response_json, result, fixCalls, start, elapsedTimes, tags,
              i, tag_pointers, last_values, output, csv_results>>
keyVars == <<kpc, key_s, key_id, key_out, key_eq>>
vars == <<histVars, keyVars>>

(***************************************************************************)
(* Bounds of the model.                                                    *)
(***************************************************************************)
MaxTimes == 3
MaxIdx == 2
MaxStr == 4
MaxKey == 3
MaxCalls == 2

\* Wire second-order deltas of elapsedTimes tried by the model.
WireTimeDeltas == {-1, 0, 5}
\* Wire first-order deltas of a tag's elapsedIndexes tried by the model.
WireIdxDeltas == {-1, 0, 1}
\* Wire values of a number or date tag.
WireNumbers == {-1, 5}
\* Wire values of a tag of any other kind (carried verbatim).
WireTexts == {"on", "off"}
\* Declared kinds of a tag: the three _fix_history dispatches on, and one other.
TagTypes == {"number", "date", "boolean", "string"}
\* Names of the tags of a payload, by position.
TagNames == <<"Temp", "Valve">>
\* history.start values of a payload (milliseconds since the epoch).
StartTimes == {1000}

SeqsUpTo(S, n) == UNION {[1..k -> S] : k \in 0..n}

(***************************************************************************)
(* _fix_history                                                            *)
(***************************************************************************)

\* The cumulative-sum loops of _fix_history (elapsedIndexes; number/date values).
RECURSIVE CumSumLoop(_, _, _)
CumSumLoop(xs, n, prev) ==
    IF n > Len(xs) THEN xs
    ELSE LET value == prev + xs[n]
         IN  CumSumLoop([xs EXCEPT ![n] = value], n + 1, value)

\* The first loop of _fix_history: prev and prev_delta are the two accumulators.
RECURSIVE FixTimesLoop(_, _, _, _)
FixTimesLoop(elapsed_times, n, prev, prev_delta) ==
    IF n > Len(elapsed_times) THEN elapsed_times
    ELSE LET delta == prev_delta + elapsed_times[n]
             value == prev + delta
         IN  FixTimesLoop([elapsed_times EXCEPT ![n] = value], n + 1, value, delta)

\* The first loop without its running delta: a first-order decode.
FixElapsedTimesFirstOrder(elapsed_times) == CumSumLoop(elapsed_times, 1, 0)

FixElapsedTimes(elapsed_times) == FixTimesLoop(elapsed_times, 1, 0, 0)

\* The index loop decoding as the elapsedTimes loop does (second order).
FixIndexesSecondOrder(elapsed_indexes) == FixTimesLoop(elapsed_indexes, 1, 0, 0)

FixIndexes(elapsed_indexes) == CumSumLoop(elapsed_indexes, 1, 0)

\* Python values held in tag.values, with their runtime type.
PyInt(n) == [k |-> "int", n |-> n, b |-> FALSE, s |-> ""]
PyBool(b) == [k |-> "bool", n |-> 0, b |-> b, s |-> ""]
PyText(s) == [k |-> "str", n |-> 0, b |-> FALSE, s |-> s]

\* "not last_value" on a bool.
PyNot(v) == PyBool(~v.b)

\* The number/date branch: values[i] = prev + values[i].
RECURSIVE NumbersLoop(_, _, _)
NumbersLoop(values, n, prev) ==
    IF n > Len(values) THEN values
    ELSE LET value == prev + values[n].n
         IN  NumbersLoop([values EXCEPT ![n] = PyInt(value)], n + 1, value)

\* The number/date branch left out: the wire values kept as they are.
FixNumbersVerbatim(values) == values

FixNumbers(values) == NumbersLoop(values, 1, 0)

\* The boolean branch: expanded_values starts as [values1[0]] and gets one
\* alternated entry for each i in range(1, len(tag.elapsedIndexes)).
RECURSIVE ExpandLoop(_, _, _, _)
ExpandLoop(expanded_values, last_value, n, count) ==
    IF n >= count THEN expanded_values
    ELSE ExpandLoop(Append(expanded_values, PyNot(last_value)), PyNot(last_value),
                    n + 1, count)

FixBooleans(values1, count) ==
    IF Len(values1) > 0
    THEN ExpandLoop(<<values1[1]>>, values1[1], 1, count)
    ELSE values1

\* The body of "for tag in history.tags".
FixTag(tag) ==
    LET elapsed_indexes == FixIndexes(tag.elapsedIndexes)
    IN  [tag EXCEPT
           !.elapsedIndexes = elapsed_indexes,
           !.values =
              IF tag.type = "number" \/ tag.type = "date"
              THEN FixNumbers(tag.values)
              ELSE IF tag.type = "boolean"
              THEN FixBooleans(tag.values, Len(elapsed_indexes))
              ELSE tag.values]

\* _fix_history on a history h = [start, elapsedTimes, tags].
_fix_history(h) ==
    [h EXCEPT !.elapsedTimes = FixElapsedTimes(h.elapsedTimes),
              !.tags = [t \in 1..Len(h.tags) |-> FixTag(h.tags[t])]]

(***************************************************************************)
(* The payloads _fetch may return.                                         *)
(***************************************************************************)

WireValues(type) ==
    IF type = "number" \/ type = "date" THEN {PyInt(n) : n \in WireNumbers}
    ELSE IF type = "boolean" THEN {PyBool(b) : b \in BOOLEAN}
    ELSE {PyText(s) : s \in WireTexts}

\* A tag stream as sent: any kind, any index deltas, any number of values.
WireTags ==
    UNION {[type : {ty}, elapsedIndexes : SeqsUpTo(WireIdxDeltas, MaxIdx),
            values : SeqsUpTo(WireValues(ty), MaxIdx)] : ty \in TagTypes}

\* Well-formed tag streams sent beside another tag.
CompanionTags ==
    { [type |-> "boolean", elapsedIndexes |-> <<0, 1>>, values |-> <<PyBool(TRUE)>>],
      [type |-> "string", elapsedIndexes |-> <<1>>, values |-> <<PyText("on")>>],
      [type |-> "number", elapsedIndexes |-> <<>>, values |-> <<>>] }

Named(ts) ==
    [t \in 1..Len(ts) |->
        [name |-> TagNames[t], type |-> ts[t].type,
         elapsedIndexes |-> ts[t].elapsedIndexes, values |-> ts[t].values]]

WireTagLists ==
    {<<>>} \cup {<<w>> : w \in WireTags}
           \cup {<<w, c>> : w \in WireTags, c \in CompanionTags}
           \cup {<<c, w>> : w \in WireTags, c \in CompanionTags}

\* Regular sampling every 10 ms from offset 0: decodes to 0, 10, 20, ...
SampledTimes(n) == [k \in 1..n |-> IF k = 2 THEN 10 ELSE 0]

Payloads ==
    { [start |-> s, elapsedTimes |-> d, tags |-> <<>>] :
          s \in StartTimes, d \in SeqsUpTo(WireTimeDeltas, MaxTimes) }
    \cup
    { [start |-> s, elapsedTimes |-> SampledTimes(n), tags |-> Named(ts)] :
          s \in StartTimes, n \in 0..MaxTimes, ts \in WireTagLists }

(***************************************************************************)
(* ApiPe.history                                                           *)
(***************************************************************************)

csvIdle == /\ i = 0
           /\ tag_pointers = <<>>
           /\ last_values = <<>>
           /\ output = <<>>

\* The test for an absent response made after the decoder has been called.
HistoryAbsentAfterFix ==
    /\ pc = "idle"
    /\ response_json' = <<>>
    /\ fixCalls' = fixCalls + 1
    /\ result' = "None"
    /\ pc' = "returned"
    /\ UNCHANGED <<start, elapsedTimes, tags, i, tag_pointers,
                   last_values, output, csv_results, keyVars>>

\* _fetch returned nothing: "if not response_json: return None".
HistoryAbsent ==
    /\ pc = "idle"
    /\ response_json' = <<>>
    /\ result' = "None"
    /\ pc' = "returned"
    /\ UNCHANGED <<fixCalls, start, elapsedTimes, tags, i, tag_pointers,
                   last_values, output, csv_results, keyVars>>

\* _fetch returned a payload: from_dict, _fix_history, return history.
HistoryPresent ==
    /\ pc = "idle"
    /\ \E payload \in Payloads :
          LET history == _fix_history(payload)
          IN  /\ response_json' = <<payload>>
              /\ start' = history.start
              /\ elapsedTimes' = history.elapsedTimes
              /\ tags' = history.tags
    /\ fixCalls' = fixCalls + 1
    /\ result' = "history"
    /\ pc' = "returned"
    /\ UNCHANGED <<i, tag_pointers, last_values, output, csv_results, keyVars>>

(***************************************************************************)
(* history_to_csv                                                          *)
(***************************************************************************)

\* str(value) for the values a tag holds.
PyStr(v) ==
    IF v.k = "int" THEN ToString(v.n)
    ELSE IF v.k = "bool" THEN (IF v.b THEN "True" ELSE "False")
    ELSE v.s

\* (history.start + timedelta(milliseconds=ms)).strftime(...)[:-3] + 'Z': the
\* instant start + ms to the millisecond; the calendar layout is not modelled.
TimeText(start_ms, ms) == ToString(start_ms + ms) \o "Z"

\* "str(current_value) if current_value is not None else ''".
FieldText(current_value) ==
    IF current_value = <<>> THEN "" ELSE PyStr(current_value[1])

\* The test of the if with the row counted from 1.
MatchesOneBased(t, r, ptr) ==
    /\ ptr < Len(tags[t].elapsedIndexes)
    /\ tags[t].elapsedIndexes[ptr + 1] = r + 1

\* The test of the if in the tag loop, for tag t at row r with cursor ptr.
Matches(t, r, ptr) ==
    /\ ptr < Len(tags[t].elapsedIndexes)
    /\ tags[t].elapsedIndexes[ptr + 1] = r

\* tag.values[ptr] raises IndexError.
Raises(t, r, ptr) == Matches(t, r, ptr) /\ ptr >= Len(tags[t].values)

\* The header with the tag names last to first.
HeaderReversed(ts) ==
    <<"ElapsedTime", "Time">> \o [t \in 1..Len(ts) |-> ts[Len(ts) + 1 - t].name]

\* ['ElapsedTime', 'Time'] + [tag.name for tag in history.tags].
Header(ts) == <<"ElapsedTime", "Time">> \o [t \in 1..Len(ts) |-> ts[t].name]

\* last_values kept from the call before, as a list that outlives the call would be.
CarriedValues(num_tags) ==
    IF Len(last_values) = num_tags THEN last_values ELSE [t \in 1..num_tags |-> <<>>]

\* [None] * num_tags.
NoValues(num_tags) == [t \in 1..num_tags |-> <<>>]

\* A call of history_to_csv on the history that ApiPe.history returned: the
\* header, last_values, tag_pointers, the code before the row loop.
CsvStart ==
    /\ pc \in {"returned", "csv_done", "csv_raised"}
    /\ result = "history"
    /\ Len(csv_results) < MaxCalls
    /\ output' = <<Header(tags)>>
    /\ last_values' = NoValues(Len(tags))
    /\ tag_pointers' = [t \in 1..Len(tags) |-> 0]
    /\ i' = 0
    /\ pc' = "csv"
    /\ UNCHANGED <<response_json, result, fixCalls, start, elapsedTimes, tags,
                   csv_results, keyVars>>

\* One iteration of "for i in range(len(history.elapsedTimes))".
CsvRow ==
    /\ pc = "csv"
    /\ i < Len(elapsedTimes)
    /\ LET raising == {t \in 1..Len(tags) : Raises(t, i, tag_pointers[t])}
           \* the tags the inner loop gets through: all, or those before the raise
           done == {t \in 1..Len(tags) : \A r \in raising : t < r}
           hit(t) == t \in done /\ Matches(t, i, tag_pointers[t])
           lasts == [t \in 1..Len(tags) |->
                       IF hit(t) THEN <<tags[t].values[tag_pointers[t] + 1]>>
                       ELSE last_values[t]]
           row == <<ToString(elapsedTimes[i + 1]), TimeText(start, elapsedTimes[i + 1])>>
                  \o [t \in 1..Len(tags) |-> FieldText(lasts[t])]
       IN  /\ last_values' = lasts
           /\ tag_pointers' = [t \in 1..Len(tags) |->
                                  IF hit(t) THEN tag_pointers[t] + 1 ELSE tag_pointers[t]]
           /\ IF raising = {}
              THEN /\ output' = Append(output, row)
                   /\ i' = i + 1
                   /\ pc' = "csv"
                   /\ UNCHANGED csv_results
              ELSE /\ UNCHANGED <<output, i>>
                   /\ csv_results' = Append(csv_results, <<<<"IndexError">>>>)
                   /\ pc' = "csv_raised"
    /\ UNCHANGED <<response_json, result, fixCalls, start, elapsedTimes, tags, keyVars>>

\* The loop is over: return output.getvalue().
CsvReturn ==
    /\ pc = "csv"
    /\ i = Len(elapsedTimes)
    /\ pc' = "csv_done"
    /\ csv_results' = Append(csv_results, output)
    /\ UNCHANGED <<response_json, result, fixCalls, start, elapsedTimes, tags,
                   i, tag_pointers, last_values, output, keyVars>>

(***************************************************************************)
(* The key codec: to_key_string, id_to_string, string_to_id                *)
(***************************************************************************)

\* Python values of the key codec, with their runtime type.
KStr(chars) == [k |-> "str", n |-> 0, s |-> chars, items |-> <<>>]
KInt(n) == [k |-> "int", n |-> n, s |-> <<>>, items |-> <<>>]
KList(items) == [k |-> "list", n |-> 0, s |-> <<>>, items |-> items]
KNone == [k |-> "none", n |-> 0, s |-> <<>>, items |-> <<>>]
KValueError == [k |-> "ValueError", n |-> 0, s |-> <<>>, items |-> <<>>]

DigitChars == <<"0", "1", "2", "3", "4", "5", "6", "7", "8", "9">>

IsDigit(c) == \E d \in 1..Len(DigitChars) : DigitChars[d] = c

DigitVal(c) == (CHOOSE d \in 1..Len(DigitChars) : DigitChars[d] = c) - 1

\* str(n) for a non-negative int.
RECURSIVE NatText(_)
NatText(n) ==
    IF n < 10 THEN <<DigitChars[n + 1]>>
    ELSE NatText(n \div 10) \o <<DigitChars[(n % 10) + 1]>>

\* str(n) for an int.
IntText(n) == IF n < 0 THEN <<"-">> \o NatText(0 - n) ELSE NatText(n)

\* s.strip() for the blanks of the alphabet.
RECURSIVE StripLeft(_)
StripLeft(t) == IF t # <<>> /\ Head(t) = " " THEN StripLeft(Tail(t)) ELSE t

RECURSIVE StripRight(_)
StripRight(t) ==
    IF t # <<>> /\ t[Len(t)] = " " THEN StripRight(SubSeq(t, 1, Len(t) - 1)) ELSE t

\* The value of a digit string that may hold single underscores between digits.
RECURSIVE DigitsValue(_, _)
DigitsValue(t, acc) ==
    IF t = <<>> THEN acc
    ELSE IF Head(t) = "_" THEN DigitsValue(Tail(t), acc)
    ELSE DigitsValue(Tail(t), acc * 10 + DigitVal(Head(t)))

\* int(value): blanks stripped, an optional sign, digits with single underscores
\* between them; anything else raises ValueError (ok = FALSE).
ParseInt(value) ==
    LET t == StripRight(StripLeft(value))
        signed == t # <<>> /\ Head(t) \in {"+", "-"}
        body == IF signed THEN Tail(t) ELSE t
        wellFormed ==
            /\ body # <<>>
            /\ \A m \in 1..Len(body) : IsDigit(body[m]) \/ body[m] = "_"
            /\ IsDigit(body[1]) /\ IsDigit(body[Len(body)])
            /\ \A m \in 1..(Len(body) - 1) : ~(body[m] = "_" /\ body[m + 1] = "_")
    IN  IF ~wellFormed THEN [ok |-> FALSE, n |-> 0]
        ELSE [ok |-> TRUE,
              n |-> IF signed /\ Head(t) = "-" THEN 0 - DigitsValue(body, 0)
                    ELSE DigitsValue(body, 0)]

\* s.split('@').
RECURSIVE SplitLoop(_, _, _, _)
SplitLoop(s, m, cur, parts) ==
    IF m > Len(s) THEN Append(parts, cur)
    ELSE IF s[m] = "@" THEN SplitLoop(s, m + 1, <<>>, Append(parts, cur))
    ELSE SplitLoop(s, m + 1, Append(cur, s[m]), parts)

Split(s) == SplitLoop(s, 1, <<>>, <<>>)

\* '@'.join(segments).
RECURSIVE Join(_)
Join(segments) ==
    IF segments = <<>> THEN <<>>
    ELSE IF Len(segments) = 1 THEN segments[1]
    ELSE segments[1] \o <<"@">> \o Join(Tail(segments))

\* str(it) for a scalar.
KeyStr(it) == IF it.k = "int" THEN IntText(it.n) ELSE it.s

\* not (v != '' and v != 0).
IsSentinel(v) == (v.k = "str" /\ v.s = <<>>) \/ (v.k = "int" /\ v.n = 0)

\* The while loop of to_key_string: the length of the prefix that is kept.
RECURSIVE TrimLoop(_, _)
TrimLoop(key, j) ==
    IF j # 0 /\ IsSentinel(key[j]) THEN TrimLoop(key, j - 1) ELSE j

\* '' if it == ' ' else str(it).
Segment(it) == IF it.k = "str" /\ it.s = <<" ">> THEN <<>> ELSE KeyStr(it)

\* to_key_string without its while loop.
to_key_string_no_trim(key) == Join([m \in 1..Len(key) |-> Segment(key[m])])

to_key_string(key) ==
    LET j == TrimLoop(key, Len(key))
    IN  Join([m \in 1..j |-> Segment(key[m])])

id_to_string(id_value) ==
    IF id_value.k = "none" THEN <<>>
    ELSE IF id_value.k = "list" THEN to_key_string(id_value.items)
    ELSE KeyStr(id_value)

\* string_to_id keeping every part as the string it is.
string_to_id_no_int(s) ==
    LET parts == Split(s)
    IN  IF Len(parts) = 1 THEN KStr(s)
        ELSE KList([m \in 1..Len(parts) |->
                       IF m = 1 THEN KStr(IF parts[m] = <<>> THEN <<" ">> ELSE parts[m])
                       ELSE KStr(parts[m])])

string_to_id(s) ==
    LET parts == Split(s)
    IN  IF Len(parts) = 1 THEN KStr(s)
        ELSE IF \E m \in 2..Len(parts) : ~ParseInt(parts[m]).ok THEN KValueError
        ELSE KList([m \in 1..Len(parts) |->
                       IF m = 1 THEN KStr(IF parts[m] = <<>> THEN <<" ">> ELSE parts[m])
                       ELSE KInt(ParseInt(parts[m]).n)])

\* A bool as id_equals returns it.
PyBoolText(b) == IF b THEN "True" ELSE "False"

\* id_equals(x, y): "True", "False", or "IndexError" when x[0] or y[0] is
\* taken of an empty list.
id_equals(x, y) ==
    IF x = y THEN "True"
    ELSE IF x.k = "list" /\ y.k = "list"
    THEN PyBoolText(/\ Len(x.items) = Len(y.items)
                    /\ \A m \in 1..Len(x.items) : x.items[m] = y.items[m])
    ELSE IF x.k = "list"
    THEN (IF x.items = <<>> THEN "IndexError" ELSE PyBoolText(x.items[1] = y))
    ELSE IF y.k = "list"
    THEN (IF y.items = <<>> THEN "IndexError" ELSE PyBoolText(y.items[1] = x))
    ELSE "False"

\* The characters of the strings tried by the model.
Chars == {"A", " ", "@", "0", "1", "-"}
\* The elements of the sequence identifiers tried by the model.
KeyElems ==
    { KStr(<<>>), KStr(<<" ">>), KStr(<<"A">>), KStr(<<"0">>), KStr(<<"@">>),
      KInt(0), KInt(1), KInt(-1) }
\* The integer scalar identifiers tried by the model.
KeyInts == {-1, 0, 1, 10}

Strings == SeqsUpTo(Chars, MaxStr)

Ids ==
    {KNone} \cup {KStr(s) : s \in Strings} \cup {KInt(n) : n \in KeyInts}
            \cup {KList(l) : l \in SeqsUpTo(KeyElems, MaxKey)}

\* The scalars and the elements of the identifiers id_equals is tried on.
EqElems == {KStr(<<>>), KStr(<<"A">>), KInt(0), KInt(1)}

EqIds == EqElems \cup {KList(l) : l \in SeqsUpTo(EqElems, MaxKey)}

\* id_equals(x, y) is called.
IdEquals ==
    /\ kpc = "idle"
    /\ \E x \in EqIds, y \in EqIds :
          /\ key_id' = x
          /\ key_out' = y
          /\ key_eq' = id_equals(x, y)
    /\ kpc' = "compared"
    /\ UNCHANGED <<key_s, histVars>>

\* string_to_id(s) is called.
StringToId ==
    /\ kpc = "idle"
    /\ \E s \in Strings :
          /\ key_s' = s
          /\ key_id' = string_to_id(s)
    /\ kpc' = "decoded"
    /\ UNCHANGED <<key_out, key_eq, histVars>>

\* id_to_string is called on what string_to_id returned.
EncodeDecoded ==
    /\ kpc = "decoded"
    /\ key_id.k # "ValueError"
    /\ key_out' = KStr(id_to_string(key_id))
    /\ kpc' = "reencoded"
    /\ UNCHANGED <<key_s, key_id, key_eq, histVars>>

\* id_to_string(id_value) is called.
IdToString ==
    /\ kpc = "idle"
    /\ \E id_value \in Ids :
          /\ key_id' = id_value
          /\ key_s' = id_to_string(id_value)
    /\ kpc' = "encoded"
    /\ UNCHANGED <<key_out, key_eq, histVars>>

\* string_to_id is called on what id_to_string returned.
DecodeEncoded ==
    /\ kpc = "encoded"
    /\ key_out' = string_to_id(key_s)
    /\ kpc' = "redecoded"
    /\ UNCHANGED <<key_s, key_id, key_eq, histVars>>

Init ==
    /\ pc = "idle"
    /\ response_json = <<>>
    /\ result = "None"
    /\ fixCalls = 0
    /\ start = 0
    /\ elapsedTimes = <<>>
    /\ tags = <<>>
    /\ csvIdle
    /\ csv_results = <<>>
    /\ kpc = "idle"
    /\ key_s = <<>>
    /\ key_id = KNone
    /\ key_out = KNone
    /\ key_eq = ""

Next == HistoryAbsent \/ HistoryPresent \/ CsvStart \/ CsvRow \/ CsvReturn

Spec == Init /\ [][Next]_vars

KeyNext == StringToId \/ EncodeDecoded \/ IdToString \/ DecodeEncoded \/ IdEquals

SpecKey == Init /\ [][KeyNext]_vars

(***************************************************************************)
(* Properties of the history decoder and the tabulator.                    *)
(***************************************************************************)

\* ApiPe.history has returned a decoded history.
Decoded == pc # "idle" /\ result = "history"

\* The payload as it was on the wire.
wirePayload == response_json[1]

At(a, k) == IF k < 1 THEN 0 ELSE a[k]

RECURSIVE PrefixSum(_, _)
PrefixSum(d, k) == IF k < 1 THEN 0 ELSE PrefixSum(d, k - 1) + d[k]

NonDecreasing(a) == \A k \in 1..(Len(a) - 1) : a[k] <= a[k + 1]

StrictlyIncreasing(a) == \A k \in 1..(Len(a) - 1) : a[k] < a[k + 1]

\* C1: the decoded elapsedTimes has the length of the wire sequence d and its
\* second difference (zero initial conditions) is d; wire [5,5,5] decodes to
\* [5,15,30].
C1_SecondDifference ==
    Decoded =>
        LET d == wirePayload.elapsedTimes
            a == elapsedTimes
        IN  /\ Len(a) = Len(d)
            /\ \A k \in 1..Len(d) :
                  (a[k] - At(a, k - 1)) - (At(a, k - 1) - At(a, k - 2)) = d[k]
            /\ d = <<5, 5, 5>> => a = <<5, 15, 30>>

\* C1 witness: the wire sequence [5,5,5] has been decoded.
C1_Witness ==
    /\ Decoded
    /\ wirePayload.elapsedTimes = <<5, 5, 5>>
    /\ elapsedTimes = <<5, 15, 30>>

\* C2 as stated: whatever the wire deltas, the decoded elapsedTimes is
\* non-decreasing.
C2_AlwaysNonDecreasing == Decoded => NonDecreasing(elapsedTimes)

\* C2 amended: the decoded elapsedTimes is non-decreasing exactly when every
\* running delta after the first entry (d[0] + ... + d[k], k >= 1) is >= 0.
C2_NonDecreasingIffRunningDelta ==
    Decoded =>
        LET d == wirePayload.elapsedTimes
        IN  NonDecreasing(elapsedTimes) <=> \A k \in 2..Len(d) : PrefixSum(d, k) >= 0

\* C2 witness: a wire sequence with negative entries whose running deltas stay
\* non-negative has been decoded to a non-decreasing sequence.
C2_Witness ==
    /\ Decoded
    /\ wirePayload.elapsedTimes = <<5, -1, -1>>
    /\ elapsedTimes = <<5, 9, 12>>

\* C3 as stated: a boolean tag with N recorded indexes whose wire values start
\* with v0 decodes to N values, the first v0, each next one the negation of the
\* one before, for every N including 0.
C3_BooleanRunLength ==
    Decoded =>
        \A t \in 1..Len(tags) :
            LET wire == wirePayload.tags[t]
                N == Len(tags[t].elapsedIndexes)
                values == tags[t].values
            IN  (tags[t].type = "boolean" /\ Len(wire.values) > 0) =>
                    /\ Len(values) = N
                    /\ N >= 1 => values[1] = wire.values[1]
                    /\ \A k \in 2..Len(values) : values[k] = PyNot(values[k - 1])

\* C4 as stated: after decoding, every tag has as many values as indexes.
C4_ValuesMatchIndexes ==
    Decoded => \A t \in 1..Len(tags) : Len(tags[t].values) = Len(tags[t].elapsedIndexes)

\* C5 as stated: every tag's decoded elapsedIndexes is strictly increasing.
C5_AlwaysStrictlyIncreasing ==
    Decoded => \A t \in 1..Len(tags) : StrictlyIncreasing(tags[t].elapsedIndexes)

\* C5 amended: every tag's decoded elapsedIndexes is the running sum of that
\* tag's own wire deltas (accumulator starting at 0 for each tag), and it is
\* strictly increasing exactly when every wire delta after the first is >= 1.
C5_RunningSumPerTag ==
    Decoded =>
        \A t \in 1..Len(tags) :
            LET d == wirePayload.tags[t].elapsedIndexes
                a == tags[t].elapsedIndexes
            IN  /\ Len(a) = Len(d)
                /\ \A k \in 1..Len(d) : a[k] = PrefixSum(d, k)
                /\ StrictlyIncreasing(a) <=> \A k \in 2..Len(d) : d[k] >= 1

\* C5 witness: two tags have been decoded, each from its own accumulator, to
\* strictly increasing indexes.
C5_Witness ==
    /\ Decoded
    /\ Len(tags) = 2
    /\ wirePayload.tags[1].elapsedIndexes = <<1, 1>>
    /\ tags[1].elapsedIndexes = <<1, 2>>
    /\ tags[2].elapsedIndexes = <<0, 1>>

\* The decoded history is as the tabulator expects it: for every tag, strictly
\* increasing indexes into elapsedTimes and one value per index.
WellFormed ==
    \A t \in 1..Len(tags) :
        /\ StrictlyIncreasing(tags[t].elapsedIndexes)
        /\ \A k \in 1..Len(tags[t].elapsedIndexes) :
              tags[t].elapsedIndexes[k] \in 0..(Len(elapsedTimes) - 1)
        /\ Len(tags[t].values) = Len(tags[t].elapsedIndexes)

\* The positions of tag t's recorded indexes that are <= r.
RecordedUpTo(t, r) ==
    {k \in 1..Len(tags[t].elapsedIndexes) : tags[t].elapsedIndexes[k] <= r}

\* The last position of a non-empty set of positions.
Last(ks) == CHOOSE k \in ks : \A j \in ks : j <= k

\* The column of tag t in the rows written so far.
Column(t) == [r \in 1..(Len(output) - 1) |-> output[r + 1][2 + t]]

\* C6: for a well-formed decoded history, the field of tag t in row r is the
\* text of the value recorded at the greatest recorded index <= r, and empty
\* when there is none; a tag recorded only at index 1 with value 5 over three
\* rows gives the column ["", "5", "5"].
C6_ForwardFill ==
    (pc \in {"csv", "csv_done"} /\ WellFormed) =>
        \A t \in 1..Len(tags) :
            /\ \A r \in 0..(Len(output) - 2) :
                  output[r + 2][2 + t] =
                      IF RecordedUpTo(t, r) = {} THEN ""
                      ELSE PyStr(tags[t].values[Last(RecordedUpTo(t, r))])
            /\ (/\ pc = "csv_done"
                /\ Len(elapsedTimes) = 3
                /\ tags[t].elapsedIndexes = <<1>>
                /\ tags[t].values = <<PyInt(5)>>) => Column(t) = <<"", "5", "5">>

\* C6 witness: the example has been tabulated.
C6_Witness ==
    /\ pc = "csv_done"
    /\ WellFormed
    /\ elapsedTimes = <<0, 10, 20>>
    /\ Len(tags) = 1
    /\ tags[1].type = "number"
    /\ tags[1].elapsedIndexes = <<1>>
    /\ tags[1].values = <<PyInt(5)>>
    /\ Column(1) = <<"", "5", "5">>

\* The payload is malformed: a tag that is not boolean (a boolean tag sends its
\* initial value only) has not one value per index, or a decoded index is not
\* a position of elapsedTimes.
Malformed ==
    \E t \in 1..Len(tags) :
        \/ /\ tags[t].type # "boolean"
           /\ Len(wirePayload.tags[t].values) # Len(wirePayload.tags[t].elapsedIndexes)
        \/ \E k \in 1..Len(tags[t].elapsedIndexes) :
              tags[t].elapsedIndexes[k] \notin 0..(Len(elapsedTimes) - 1)

\* C7 as stated: a malformed payload never comes back as a decoded history, and
\* no tabulation completes having left a recorded value of it unread.
C7_MalformedRejected ==
    (pc # "idle" /\ response_json # <<>> /\ Malformed) =>
        /\ result # "history"
        /\ pc = "csv_done" =>
              \A t \in 1..Len(tags) : tag_pointers[t] = Len(tags[t].values)

(***************************************************************************)
(* Properties of the key codec.                                            *)
(***************************************************************************)

LastPart(s) == Split(s)[Len(Split(s))]

\* s has no trailing segment that is empty or zero.
NoTrailingDroppable(s) ==
    /\ LastPart(s) # <<>>
    /\ ~(ParseInt(LastPart(s)).ok /\ ParseInt(LastPart(s)).n = 0)

\* p is what str prints for some int: "0", or an optional "-" before digits
\* that do not start with "0".
CanonicalIntText(p) ==
    \/ p = <<"0">>
    \/ LET body == IF p # <<>> /\ Head(p) = "-" THEN Tail(p) ELSE p
       IN  /\ body # <<>>
           /\ \A m \in 1..Len(body) : IsDigit(body[m])
           /\ body[1] # "0"

\* s has no '@', or its first segment is not a single space, every later
\* segment is the canonical text of an integer and the last one is not "0".
Canonical(s) ==
    LET parts == Split(s)
    IN  \/ Len(parts) = 1
        \/ /\ parts[1] # <<" ">>
           /\ \A m \in 2..Len(parts) : CanonicalIntText(parts[m])
           /\ parts[Len(parts)] # <<"0">>

\* C8 as stated: for every s with no trailing droppable segment,
\* id_to_string(string_to_id(s)) == s.
C8_RoundTripAsStated ==
    (kpc \in {"decoded", "reencoded"} /\ NoTrailingDroppable(key_s)) =>
        /\ key_id.k # "ValueError"
        /\ kpc = "reencoded" => key_out = KStr(key_s)

\* C8 amended: id_to_string(string_to_id(s)) == s holds exactly for the s that
\* have no '@' and the s whose first segment is not a single space and whose
\* later segments are canonical integer texts, the last one not "0"; for these
\* string_to_id does not raise.
C8_RoundTripIffCanonical ==
    /\ (kpc = "decoded" /\ Canonical(key_s)) => key_id.k # "ValueError"
    /\ kpc = "reencoded" => (key_out = KStr(key_s) <=> Canonical(key_s))

\* C8 witness: "A@1" has been decoded to ["A", 1] and encoded back to "A@1".
C8_Witness ==
    /\ kpc = "reencoded"
    /\ key_s = <<"A", "@", "1">>
    /\ key_id = KList(<<KStr(<<"A">>), KInt(1)>>)
    /\ key_out = KStr(key_s)

\* The number of elements of key up to its last element that is neither the
\* empty string nor the integer 0.
Significant(key) ==
    LET kept == {m \in 1..Len(key) : ~IsSentinel(key[m])}
    IN  IF kept = {} THEN 0 ELSE Last(kept)

\* id with its trailing empty-string and zero elements removed.
Truncated(id) ==
    IF id.k = "list" THEN KList(SubSeq(id.items, 1, Significant(id.items))) ELSE id

\* C9 as stated: string_to_id(id_to_string(id)) is id with its trailing
\* sentinels removed, element for element and with the same shape.
C9_RoundTripAsStated ==
    (kpc = "redecoded" /\ key_id.k # "none") => key_out = Truncated(key_id)

\* id is a string without '@', or a sequence whose truncation has at least two
\* elements, the first a non-empty string without '@', the others integers.
Faithful(id) ==
    \/ id.k = "str" /\ \A m \in 1..Len(id.s) : id.s[m] # "@"
    \/ /\ id.k = "list"
       /\ LET t == Truncated(id).items
          IN  /\ Len(t) >= 2
              /\ t[1].k = "str" /\ t[1].s # <<>>
              /\ \A m \in 1..Len(t[1].s) : t[1].s[m] # "@"
              /\ \A m \in 2..Len(t) : t[m].k = "int"

\* C9 amended: string_to_id(id_to_string(id)) is id with its trailing sentinels
\* removed exactly when id is a string scalar without '@', or a sequence whose
\* truncation has at least two elements, the first a non-empty string without
\* '@' and the others integers.
C9_RoundTripIffFaithful ==
    kpc = "redecoded" => (key_out = Truncated(key_id) <=> Faithful(key_id))

\* C9 witness: ["A", 1, 0] has been encoded to "A@1" and decoded to ["A", 1].
C9_Witness ==
    /\ kpc = "redecoded"
    /\ key_id = KList(<<KStr(<<"A">>), KInt(1), KInt(0)>>)
    /\ key_s = <<"A", "@", "1">>
    /\ key_out = KList(<<KStr(<<"A">>), KInt(1)>>)

\* A scalar is promoted to the one-element sequence holding it.
Promoted(id) == IF id.k = "list" THEN id.items ELSE <<id>>

\* C10 as stated: every identifier, a scalar being promoted to a one-element
\* sequence, encodes to the '@'-join of what is left of it after its trailing
\* empty-string and zero elements are dropped, a single space giving an empty
\* segment; a scalar encodes as the one-element sequence holding it.
C10_EncodeAsStated ==
    (kpc \in {"encoded", "redecoded"} /\ key_id.k # "none") =>
        LET key == Promoted(key_id)
        IN  /\ key_s = Join([m \in 1..Significant(key) |-> Segment(key[m])])
            /\ key_s = id_to_string(KList(key))

\* The rule for two identifiers: two sequences are equal iff they have the same
\* length and are pairwise equal; a sequence and a scalar iff the sequence's
\* first element is the scalar; two scalars iff they are the same value.
EqualByRule(x, y) ==
    IF x.k = "list" /\ y.k = "list"
    THEN /\ Len(x.items) = Len(y.items)
         /\ \A m \in 1..Len(x.items) : x.items[m] = y.items[m]
    ELSE IF x.k = "list" THEN \E m \in {1} \cap DOMAIN x.items : x.items[m] = y
    ELSE IF y.k = "list" THEN \E m \in {1} \cap DOMAIN y.items : y.items[m] = x
    ELSE x = y

\* C11 as stated: id_equals returns a boolean for every pair of identifiers,
\* sequences of any length included, and it is True exactly when the rule says
\* the two are equal.
C11_EqualsByRule ==
    kpc = "compared" =>
        /\ key_eq \in {"True", "False"}
        /\ key_eq = "True" <=> EqualByRule(key_id, key_out)

\* C12: for every number or date tag the decoded values are as many as the
\* wire values and their first difference (the first taken against 0) is the
\* wire sequence.
C12_FirstDifference ==
    Decoded =>
        \A t \in 1..Len(tags) :
            (tags[t].type \in {"number", "date"}) =>
                LET w == wirePayload.tags[t].values
                    v == tags[t].values
                IN  /\ Len(v) = Len(w)
                    /\ \A m \in 1..Len(w) :
                          /\ v[m].k = "int"
                          /\ v[m].n - (IF m = 1 THEN 0 ELSE v[m - 1].n) = w[m].n

\* C12 witness: a date tag sent as [5, -1] has been decoded to [5, 4].
C12_Witness ==
    /\ Decoded
    /\ Len(tags) >= 1
    /\ tags[1].type = "date"
    /\ wirePayload.tags[1].values = <<PyInt(5), PyInt(-1)>>
    /\ tags[1].values = <<PyInt(5), PyInt(4)>>

\* C13: what history_to_csv writes is the header ElapsedTime, Time and the tag
\* names in the order of the tag sequence, then one record per entry of the
\* decoded elapsedTimes, in order (none when it is empty); every record has
\* 2 + number-of-tags fields and a row's first field is its elapsed offset.
C13_Layout ==
    (pc \in {"csv", "csv_done"}) =>
        /\ Len(output) = 1 + i
        /\ pc = "csv_done" => Len(output) = 1 + Len(elapsedTimes)
        /\ output[1] = <<"ElapsedTime", "Time">>
                       \o [t \in 1..Len(wirePayload.tags) |-> wirePayload.tags[t].name]
        /\ \A r \in 1..Len(output) : Len(output[r]) = 2 + Len(tags)
        /\ \A r \in 1..(Len(output) - 1) : output[r + 1][1] = ToString(elapsedTimes[r])

\* C13 witness: a history of three rows and two tags has been tabulated.
C13_Witness ==
    /\ pc = "csv_done"
    /\ elapsedTimes = <<0, 10, 20>>
    /\ Len(tags) = 2
    /\ Len(output) = 4
    /\ output[1] = <<"ElapsedTime", "Time", "Temp", "Valve">>
    /\ output[3][1] = "10"

\* C14: history_to_csv only reads the history: whatever the number of calls,
\* elapsedTimes and every tag's elapsedIndexes and values are still what
\* _fix_history made of the payload, and all calls gave the same output.
C14_ReadOnlyAndRepeatable ==
    Decoded =>
        /\ elapsedTimes = FixElapsedTimes(wirePayload.elapsedTimes)
        /\ tags = [t \in 1..Len(wirePayload.tags) |-> FixTag(wirePayload.tags[t])]
        /\ \A a \in 1..Len(csv_results), b \in 1..Len(csv_results) :
              csv_results[a] = csv_results[b]

\* C14 witness: history_to_csv has returned twice, with forward-filled rows.
C14_Witness ==
    /\ pc = "csv_done"
    /\ Len(csv_results) = 2
    /\ csv_results[1] = csv_results[2]
    /\ csv_results[2] = output
    /\ Len(tags) = 1
    /\ Column(1) = <<"", "5", "5">>

\* C15: when _fetch gives nothing, ApiPe.history returns None and
\* _fix_history has not been called; a payload that is there has been decoded
\* by one call of _fix_history when the history is returned.
C15_AbsentGivesNone ==
    pc # "idle" =>
        IF response_json = <<>>
        THEN /\ result = "None"
             /\ fixCalls = 0
        ELSE /\ result = "history"
             /\ fixCalls = 1
             /\ [start |-> start, elapsedTimes |-> elapsedTimes, tags |-> tags]
                    = _fix_history(wirePayload)

\* C15 witness: ApiPe.history has returned None for an absent payload.
C15_Witness ==
    /\ pc = "returned"
    /\ response_json = <<>>
    /\ result = "None"
    /\ fixCalls = 0

\* Tag t's decoded indexes are strictly increasing positions of elapsedTimes.
IndexesInOrder(t) ==
    /\ StrictlyIncreasing(tags[t].elapsedIndexes)
    /\ \A m \in 1..Len(tags[t].elapsedIndexes) :
          tags[t].elapsedIndexes[m] \in 0..(Len(elapsedTimes) - 1)

\* During a call every cursor is a position of its tag's elapsedIndexes or one
\* past the last.
CursorInRange ==
    (pc \in {"csv", "csv_done", "csv_raised"}) =>
        \A t \in 1..Len(tags) : tag_pointers[t] \in 0..Len(tags[t].elapsedIndexes)

\* Once the last row is written, the cursor of a tag whose indexes are in order
\* is past its last index: every recorded pair has been consumed.
CursorAtEnd ==
    (pc \in {"csv", "csv_done"} /\ i = Len(elapsedTimes)) =>
        \A t \in 1..Len(tags) :
            IndexesInOrder(t) => tag_pointers[t] = Len(tags[t].elapsedIndexes)

\* A call starts every cursor at 0; a row leaves a cursor where it is or moves
\* it forward by one, and then it has consumed the pair under the cursor: the
\* index is the row's and the value becomes the tag's last seen value.
CursorStep ==
    /\ (pc # "csv" /\ pc' = "csv") => \A t \in 1..Len(tags') : tag_pointers'[t] = 0
    /\ (pc = "csv") =>
          \A t \in 1..Len(tags) :
              /\ tag_pointers'[t] \in {tag_pointers[t], tag_pointers[t] + 1}
              /\ tag_pointers'[t] = tag_pointers[t] + 1 =>
                    /\ tags[t].elapsedIndexes[tag_pointers[t] + 1] = i
                    /\ last_values'[t] = <<tags[t].values[tag_pointers[t] + 1]>>

\* C16: during history_to_csv each tag's cursor starts at 0, never decreases,
\* advances by at most one per row and never exceeds len(elapsedIndexes); for a
\* tag whose indexes are strictly increasing and in range it equals
\* len(elapsedIndexes) once the last row has been written.
C16_SingleForwardPass ==
    /\ [](CursorInRange /\ CursorAtEnd)
    /\ [][CursorStep]_vars

\* C16 witness: the call is over and a tag's two recorded pairs have been
\* consumed, the cursor standing past the last.
C16_Witness ==
    /\ pc = "csv_done"
    /\ Len(tags) >= 1
    /\ IndexesInOrder(1)
    /\ Len(tags[1].elapsedIndexes) = 2
    /\ tag_pointers[1] = 2
    /\ last_values[1] = <<tags[1].values[2]>>

=============================================================================
